---- MODULE Spec2Model ----
(***************************************************************************)
(* Model of src/consumer/consumer_application.py: ConsumerApplication.     *)
(* start (the session lifecycle under the outer retry decorator) and       *)
(* ConsumerApplication._consume (the batch-consume loop), together with    *)
(* the retry wrapper _retry = retry_async.retry(is_async=True).            *)
(*                                                                         *)
(* One step of the model is one awaited call together with its outcome     *)
(* (open, getmany, handler, commit, stop) or one sleep.  Every step is a   *)
(* suspension point, so an external cancellation (Cancel) may replace the  *)
(* outcome of the call or sleep the task is suspended in.                  *)
(***************************************************************************)
EXTENDS Integers, Sequences, FiniteSets, TLC

\* ---- bounds of the model ------------------------------------------------
\* offsets 0 .. LogEnd-1 exist on every topic-partition
LogEnd == 2
\* close() calls are counted up to CallCap
CallCap == 2

\* the topic-partitions assigned to the consumer
TP == {"p0", "p1"}

\* ---- program constants --------------------------------------------------
\* _retry(tries=3, delay=5) at the four inner call sites
Tries == 3
InnerDelay == 5
\* @retry_async.retry(tries=3, delay=15, is_async=True) on start
OuterTries == 3
OuterDelay == 15
\* consumer_batch_size as passed to getmany(max_records=...)
consumer_batch_size == 2
\* consumer_timeout_ms (default of start)
consumer_timeout_ms == 500

NoMsg == [tp |-> "-", off |-> -1]
NoLog == [t \in TP |-> <<>>]

\* the cursor the broker stores for the group when start is invoked
StartCursor == [t \in TP |-> 0]

\* largest tries argument the retry wrapper is run with on its own
MaxTries == 4

\* the message whose handler invocations pCalls counts
Poison == [tp |-> "p0", off |-> 0]

\* rt while no retry wrapper is run on its own
RtIdle == [phase |-> "idle", tries |-> 0, delay |-> 0, left |-> 0, calls |-> 0,
           sleeps |-> 0, slept |-> 0, last |-> "none", out |-> "none"]

\* subclasses of Exception: what `except Exception` and retry_async catch
Errors == {"ConnectionError", "FetchError", "HandlerError", "CommitError",
           "DisconnectError"}
\* asyncio.CancelledError derives from BaseException
Cancelled == "CancelledError"

VARIABLES
  pc,           \* the call or sleep the task of start is suspended in
  outer_tries,  \* _tries of the retry wrapper around start
  tries,        \* _tries of the inner retry wrapper currently running
  records,      \* the mapping returned by getmany, in order: <<[tp, first, n]>>
  ti,           \* outer for loop: index in records of (tp, messages)
  mi,           \* inner for loop: messages of records[ti] already committed
  pending,      \* exception in flight while the finally block runs
  result,       \* what left start: "none" while it runs
  committed,    \* broker: stored cursor per tp
  position,     \* session: next offset getmany returns per tp
  session,      \* "new" | "open" | "closed" state of the current consumer
  leaked,       \* number of earlier consumers started and never stopped
  cancelled,    \* the external cancellation has been delivered
  \* ---- history (ghost) variables
  handled,      \* messages whose handler returned successfully at least once
  hOk,          \* the handler has returned for the current message (this delivery)
  hCalls,       \* handler invocations on the current message (this delivery)
  cCalls,       \* commit calls for the current message (this delivery)
  opened,       \* some open() call of this start invocation has returned
  openFails,    \* failed open() calls since open() last returned
  closeCalls,   \* close() calls of this start invocation, counted up to CallCap
  aCloseCalls,  \* close() calls of the current outer attempt
  runErr,       \* what _consume raised in the current outer attempt
  attemptErr,   \* what left the body of start in the last finished attempt
  owed,         \* messages handled whose commit was exhausted, not yet redelivered
  commitLog,    \* per tp, values of the commit calls for records, while clean
  clean,        \* no call failed since the last getmany returned
  ev,           \* the last call or sleep and its outcome
  cancelAt,     \* the call or sleep of this outer attempt the cancellation was
                \* delivered in, or "none"
  pCalls,       \* handler invocations on the message Poison in this start
                \* invocation, while its handler has never succeeded
  rt            \* a retry wrapper run on its own: see RetryInit

prog == <<pc, outer_tries, tries, records, ti, mi, pending, result, committed,
          position, session, leaked, cancelled>>
ghost == <<handled, hOk, hCalls, cCalls, opened, openFails, closeCalls,
           aCloseCalls, runErr, attemptErr, owed, commitLog, clean, ev,
           cancelAt, pCalls>>
vars == <<prog, ghost, rt>>

\* op: the call or sleep; ok: it returned; n: its ordinal within its retry
\* wrapper; tp, off: the message it was about; h: handler invocations that
\* message had had; d: seconds slept (milliseconds / 1000 for the idle wait)
Ev(op, ok, n, m, h, d) ==
  [op |-> op, ok |-> ok, n |-> n, tp |-> m.tp, off |-> m.off, h |-> h, d |-> d]

\* ---- the mapping returned by getmany ------------------------------------
Min(a, b) == IF a < b THEN a ELSE b

RECURSIVE Total(_)
Total(recs) == IF recs = <<>> THEN 0 ELSE Head(recs).n + Total(Tail(recs))

\* every mapping getmany may return at the current position: any tps in any
\* order, each with a run of consecutive offsets starting at its position
\* (possibly empty), at most max_records messages in all
Batches(pos) ==
  { recs \in UNION { [1..k -> [tp : TP, first : 0..LogEnd, n : 0..consumer_batch_size]]
                     : k \in 0..Cardinality(TP) } :
      /\ \A i \in DOMAIN recs :
            /\ recs[i].first = pos[recs[i].tp]
            /\ recs[i].first + recs[i].n <= LogEnd
      /\ \A i, j \in DOMAIN recs : recs[i].tp = recs[j].tp => i = j
      /\ Total(recs) <= consumer_batch_size }

\* msg of the inner for loop
Msg == IF ti \in DOMAIN records /\ records[ti].n > 0
         THEN [tp |-> records[ti].tp, off |-> records[ti].first + mi]
         ELSE NoMsg

\* where _consume continues with item i of recs.items(): back to getmany when
\* the mapping is used up, the idle sleep on an empty list, else the handler
Dispatch(recs, i) ==
  IF i > Len(recs) THEN "fetch"
  ELSE IF recs[i].n = 0 THEN "idle" ELSE "handler"

Count(c) == Min(c + 1, CallCap)

\* ---- control flow shared by the call sites ---------------------------------
Running == {"fetch", "idle", "handler", "handler_delay", "commit", "commit_delay"}
Opening == {"open", "open_delay"}
Closing == {"close", "close_delay"}
Delays  == {"open_delay", "handler_delay", "commit_delay", "close_delay"}

\* the call a retry sleep returns to
OpOf(p) == CASE p = "open_delay"    -> "open"
             [] p = "handler_delay" -> "handler"
             [] p = "commit_delay"  -> "commit"
             [] p = "close_delay"   -> "close"

\* an exception err leaves the body of start: the decorator of start catches
\* Exception only, re-raises once its _tries are used up, sleeps otherwise
Leave(err) ==
  /\ attemptErr' = err
  /\ IF err = Cancelled
       THEN /\ outer_tries' = outer_tries
            /\ result' = err
            /\ pc' = "done"
       ELSE /\ outer_tries' = outer_tries - 1
            /\ IF outer_tries' = 0
                 THEN result' = err /\ pc' = "done"
                 ELSE result' = result /\ pc' = "outer_delay"

\* an exception err leaves _consume: `except Exception` logs and re-raises,
\* the finally block then awaits _retry(tries=3, delay=5)(consumer.stop)();
\* records and the fetch position of the consumer are not used again
Raise(err) ==
  /\ pc' = "close"
  /\ tries' = Tries
  /\ pending' = err
  /\ runErr' = err
  /\ records' = <<>>
  /\ ti' = 1
  /\ mi' = 0
  /\ position' = StartCursor
  /\ commitLog' = NoLog
  /\ clean' = FALSE
  /\ UNCHANGED <<outer_tries, result, attemptErr>>

\* variant of Advance: after each commit the loop turns to the next tp of the
\* mapping, whether or not the list of the current tp is used up
Advance_interleave ==
  /\ mi' = 0
  /\ ti' = ti + 1
  /\ pc' = Dispatch(records, ti + 1)

\* the for loops of _consume after msg has been committed
Advance ==
  IF mi + 1 < records[ti].n
    THEN /\ mi' = mi + 1
         /\ ti' = ti
         /\ pc' = "handler"
    ELSE /\ mi' = 0
         /\ ti' = ti + 1
         /\ pc' = Dispatch(records, ti + 1)

\* the position of the session after getmany returned recs
Consumed(pos, recs) ==
  [t \in TP |-> IF \E i \in DOMAIN recs : recs[i].tp = t
                  THEN pos[t] + recs[CHOOSE i \in DOMAIN recs : recs[i].tp = t].n
                  ELSE pos[t]]


InitConsumer ==
  /\ pc = "open"
  /\ outer_tries = OuterTries
  /\ tries = Tries
  /\ records = <<>>
  /\ ti = 1
  /\ mi = 0
  /\ pending = "none"
  /\ result = "none"
  /\ committed = StartCursor
  /\ position = StartCursor
  /\ session = "new"
  /\ leaked = 0
  /\ cancelled = FALSE
  /\ handled = {}
  /\ hOk = FALSE
  /\ hCalls = 0
  /\ cCalls = 0
  /\ opened = FALSE
  /\ openFails = 0
  /\ closeCalls = 0
  /\ aCloseCalls = 0
  /\ runErr = "none"
  /\ attemptErr = "none"
  /\ owed = {}
  /\ commitLog = NoLog
  /\ clean = TRUE
  /\ ev = Ev("init", TRUE, 0, NoMsg, 0, 0)
  /\ cancelAt = "none"
  /\ pCalls = 0

Init ==
  /\ InitConsumer
  /\ rt = RtIdle

\* ---- Opening: await _retry(tries=3, delay=5)(consumer.start)() ---------------
\* consumer.start() returns: the session resumes at the stored cursor
\* variant of OpenOk: the opened consumer starts at the beginning of every tp
\* instead of the committed cursor of the group
OpenOk_fromStart ==
  /\ pc = "open"
  /\ pc' = "fetch"
  /\ position' = StartCursor
  /\ session' = "open"
  /\ opened' = TRUE
  /\ openFails' = 0
  /\ ev' = Ev("open", TRUE, Tries - tries + 1, NoMsg, 0, 0)
  /\ UNCHANGED <<outer_tries, tries, records, ti, mi, pending, result,
                 committed, leaked, cancelled, handled, hOk, hCalls, cCalls,
                 closeCalls, aCloseCalls, runErr, attemptErr, owed, commitLog, clean,
                 cancelAt, pCalls, rt>>

OpenOk ==
  /\ pc = "open"
  /\ pc' = "fetch"
  /\ position' = committed
  /\ session' = "open"
  /\ opened' = TRUE
  /\ openFails' = 0
  /\ ev' = Ev("open", TRUE, Tries - tries + 1, NoMsg, 0, 0)
  /\ UNCHANGED <<outer_tries, tries, records, ti, mi, pending, result,
                 committed, leaked, cancelled, handled, hOk, hCalls, cCalls,
                 closeCalls, aCloseCalls, runErr, attemptErr, owed, commitLog, clean,
                 cancelAt, pCalls, rt>>

\* variant of OpenFail: consumer.start() awaited without the retry wrapper
OpenFail_noRetry ==
  /\ pc = "open"
  /\ tries' = 0
  /\ Leave("ConnectionError")
  /\ openFails' = openFails + 1
  /\ ev' = Ev("open", FALSE, Tries - tries + 1, NoMsg, 0, 0)
  /\ UNCHANGED <<records, ti, mi, pending, committed, position, session,
                 leaked, cancelled, handled, hOk, hCalls, cCalls, opened,
                 closeCalls, aCloseCalls, runErr, owed, commitLog, clean,
                 cancelAt, pCalls, rt>>

\* consumer.start() raises: retried, and after the last try the error leaves
\* start (no try block is entered yet, so stop() is not called)
\* variant of OpenFail: consumer.start() awaited inside the try statement, so
\* that the finally clause calls stop() on a consumer that never started
OpenFail_insideTry ==
  /\ pc = "open"
  /\ IF tries = 1
       THEN Raise("ConnectionError")
       ELSE /\ tries' = tries - 1
            /\ pc' = "open_delay"
            /\ UNCHANGED <<records, ti, mi, pending, position, runErr,
                           commitLog, clean, outer_tries, result, attemptErr>>
  /\ openFails' = openFails + 1
  /\ ev' = Ev("open", FALSE, Tries - tries + 1, NoMsg, 0, 0)
  /\ UNCHANGED <<committed, session,
                 leaked, cancelled, handled, hOk, hCalls, cCalls, opened,
                 closeCalls, aCloseCalls, owed,
                 cancelAt, pCalls, rt>>

OpenFail ==
  /\ pc = "open"
  /\ tries' = tries - 1
  /\ IF tries' = 0
       THEN Leave("ConnectionError")
       ELSE /\ pc' = "open_delay"
            /\ UNCHANGED <<outer_tries, result, attemptErr>>
  /\ openFails' = openFails + 1
  /\ ev' = Ev("open", FALSE, Tries - tries + 1, NoMsg, 0, 0)
  /\ UNCHANGED <<records, ti, mi, pending, committed, position, session,
                 leaked, cancelled, handled, hOk, hCalls, cCalls, opened,
                 closeCalls, aCloseCalls, runErr, owed, commitLog, clean,
                 cancelAt, pCalls, rt>>

\* await asyncio.sleep(_delay) inside an inner retry wrapper
RetrySleep ==
  /\ pc \in Delays
  /\ pc' = OpOf(pc)
  /\ ev' = Ev("sleep", TRUE, 0, NoMsg, 0, InnerDelay)
  /\ UNCHANGED <<outer_tries, tries, records, ti, mi, pending, result,
                 committed, position, session, leaked, cancelled, handled, hOk,
                 hCalls, cCalls, opened, openFails, closeCalls, aCloseCalls, runErr,
                 attemptErr, owed, commitLog, clean,
                 cancelAt, pCalls, rt>>

\* ---- Running: _consume ------------------------------------------------------
\* records = await consumer.getmany(...) returns a mapping
FetchOk ==
  /\ pc = "fetch"
  /\ \E recs \in Batches(position) :
        /\ records' = recs
        /\ position' = Consumed(position, recs)
        /\ pc' = Dispatch(recs, 1)
  /\ ti' = 1
  /\ mi' = 0
  /\ tries' = Tries
  /\ hOk' = FALSE
  /\ hCalls' = 0
  /\ cCalls' = 0
  /\ commitLog' = NoLog
  /\ clean' = TRUE
  /\ ev' = Ev("fetch", TRUE, 1, NoMsg, 0, 0)
  /\ UNCHANGED <<outer_tries, pending, result, committed, session, leaked,
                 cancelled, handled, opened, openFails, closeCalls, aCloseCalls, runErr,
                 attemptErr, owed,
                 cancelAt, pCalls, rt>>

\* variant of FetchFail: getmany awaited before the try statement is entered
FetchFail_noFinally ==
  /\ pc = "fetch"
  /\ Leave("FetchError")
  /\ runErr' = "FetchError"
  /\ tries' = Tries
  /\ records' = <<>>
  /\ ti' = 1
  /\ mi' = 0
  /\ commitLog' = NoLog
  /\ clean' = FALSE
  /\ ev' = Ev("fetch", FALSE, 1, NoMsg, 0, 0)
  /\ UNCHANGED <<pending, committed, position, session, leaked, cancelled,
                 handled, hOk, hCalls, cCalls, opened, openFails, closeCalls,
                 aCloseCalls, owed,
                 cancelAt, pCalls, rt>>

\* variant of FetchFail: getmany wrapped in _retry(tries=3, delay=5)
FetchFail_retry ==
  /\ pc = "fetch"
  /\ IF tries = 1
       THEN Raise("FetchError")
       ELSE /\ tries' = tries - 1
            /\ pc' = "fetch"
            /\ commitLog' = NoLog
            /\ clean' = FALSE
            /\ UNCHANGED <<records, ti, mi, pending, runErr, outer_tries,
                           result, attemptErr, position>>
  /\ ev' = Ev("fetch", FALSE, Tries - tries + 1, NoMsg, 0, 0)
  /\ UNCHANGED <<committed, session, leaked, cancelled, handled, hOk, hCalls,
                 cCalls, opened, openFails, closeCalls, aCloseCalls, owed,
                 cancelAt, pCalls, rt>>

\* consumer.getmany raises: the call is not wrapped, the error leaves _consume
FetchFail ==
  /\ pc = "fetch"
  /\ Raise("FetchError")
  /\ ev' = Ev("fetch", FALSE, 1, NoMsg, 0, 0)
  /\ UNCHANGED <<committed, session, leaked, cancelled, handled, hOk, hCalls,
                 cCalls, opened, openFails, closeCalls, aCloseCalls, owed,
                 cancelAt, pCalls, rt>>

\* `if not messages:` sleep consumer_timeout_ms / 1000, continue with next tp
\* variant of IdleSleep: `return` in place of `continue`; _consume returns,
\* stop() returns on its first try and start returns None
IdleSleep_return ==
  /\ pc = "idle"
  /\ pc' = "done"
  /\ session' = "closed"
  /\ closeCalls' = Count(closeCalls)
  /\ aCloseCalls' = aCloseCalls + 1
  /\ runErr' = "return"
  /\ ev' = Ev("close", TRUE, 1, NoMsg, 0, 0)
  /\ UNCHANGED <<outer_tries, tries, records, ti, mi, pending, result, committed,
                 position, leaked, cancelled, handled, hOk, hCalls,
                 cCalls, opened, openFails, attemptErr,
                 owed, commitLog, clean,
                 cancelAt, pCalls, rt>>

IdleSleep ==
  /\ pc = "idle"
  /\ ti' = ti + 1
  /\ pc' = Dispatch(records, ti + 1)
  /\ ev' = Ev("idle", TRUE, 0, [tp |-> records[ti].tp, off |-> -1], 0,
              consumer_timeout_ms)
  /\ UNCHANGED <<outer_tries, tries, records, mi, pending, result, committed,
                 position, session, leaked, cancelled, handled, hOk, hCalls,
                 cCalls, opened, openFails, closeCalls, aCloseCalls, runErr, attemptErr,
                 owed, commitLog, clean,
                 cancelAt, pCalls, rt>>

\* await _retry(tries=3, delay=5)(handler)(msg): handler returns
HandlerOk ==
  /\ pc = "handler"
  /\ pc' = "commit"
  /\ tries' = Tries
  /\ handled' = handled \cup {Msg}
  /\ hOk' = TRUE
  /\ hCalls' = hCalls + 1
  /\ owed' = owed \ {Msg}
  /\ ev' = Ev("handler", TRUE, Tries - tries + 1, Msg, hCalls + 1, 0)
  /\ pCalls' = IF Msg = Poison THEN 0 ELSE pCalls
  /\ UNCHANGED <<outer_tries, records, ti, mi, pending, result, committed,
                 position, session, leaked, cancelled, cCalls, opened,
                 openFails, closeCalls, aCloseCalls, runErr, attemptErr, commitLog, clean,
                 cancelAt, rt>>

\* variant of HandlerFail: the error of the last try is swallowed and the
\* commit is issued all the same
HandlerFail_swallow ==
  /\ pc = "handler"
  /\ IF tries = 1
       THEN /\ tries' = Tries
            /\ pc' = "commit"
       ELSE /\ tries' = tries - 1
            /\ pc' = "handler_delay"
  /\ commitLog' = NoLog
  /\ clean' = FALSE
  /\ hCalls' = hCalls + 1
  /\ owed' = owed \ {Msg}
  /\ ev' = Ev("handler", FALSE, Tries - tries + 1, Msg, hCalls + 1, 0)
  /\ pCalls' = IF Msg = Poison /\ Poison \notin handled THEN pCalls + 1 ELSE pCalls
  /\ UNCHANGED <<records, ti, mi, pending, runErr, outer_tries, result,
                 attemptErr, position, committed, session, leaked, cancelled,
                 handled, hOk, cCalls, opened, openFails, closeCalls,
                 aCloseCalls,
                 cancelAt, rt>>

\* variant of HandlerFail: after the last try the message is skipped and the
\* loop goes on to the next message
HandlerFail_skip ==
  /\ pc = "handler"
  /\ IF tries = 1
       THEN /\ tries' = Tries
            /\ Advance
       ELSE /\ tries' = tries - 1
            /\ pc' = "handler_delay"
            /\ UNCHANGED <<ti, mi>>
  /\ commitLog' = NoLog
  /\ clean' = FALSE
  /\ hCalls' = IF tries = 1 THEN 0 ELSE hCalls + 1
  /\ owed' = owed \ {Msg}
  /\ ev' = Ev("handler", FALSE, Tries - tries + 1, Msg, hCalls + 1, 0)
  /\ pCalls' = IF Msg = Poison /\ Poison \notin handled THEN pCalls + 1 ELSE pCalls
  /\ UNCHANGED <<records, pending, runErr, outer_tries, result, attemptErr,
                 position, committed, session, leaked, cancelled, handled, hOk,
                 cCalls, opened, openFails, closeCalls, aCloseCalls,
                 cancelAt, rt>>

\* variant of HandlerFail: the retry wrapper of the handler gives up one try
\* early
HandlerFail_twoTries ==
  /\ pc = "handler"
  /\ IF tries <= 2
       THEN Raise("HandlerError")
       ELSE /\ tries' = tries - 1
            /\ pc' = "handler_delay"
            /\ commitLog' = NoLog
            /\ clean' = FALSE
            /\ UNCHANGED <<records, ti, mi, pending, runErr, outer_tries,
                           result, attemptErr, position>>
  /\ hCalls' = hCalls + 1
  /\ owed' = owed \ {Msg}
  /\ ev' = Ev("handler", FALSE, Tries - tries + 1, Msg, hCalls + 1, 0)
  /\ pCalls' = IF Msg = Poison /\ Poison \notin handled THEN pCalls + 1 ELSE pCalls
  /\ UNCHANGED <<committed, session, leaked, cancelled, handled, hOk, cCalls,
                 opened, openFails, closeCalls, aCloseCalls,
                 cancelAt, rt>>

\* handler raises: retried, and after the last try the error leaves _consume
HandlerFail ==
  /\ pc = "handler"
  /\ IF tries = 1
       THEN Raise("HandlerError")
       ELSE /\ tries' = tries - 1
            /\ pc' = "handler_delay"
            /\ commitLog' = NoLog
            /\ clean' = FALSE
            /\ UNCHANGED <<records, ti, mi, pending, runErr, outer_tries,
                           result, attemptErr, position>>
  /\ hCalls' = hCalls + 1
  /\ owed' = owed \ {Msg}
  /\ ev' = Ev("handler", FALSE, Tries - tries + 1, Msg, hCalls + 1, 0)
  /\ pCalls' = IF Msg = Poison /\ Poison \notin handled THEN pCalls + 1 ELSE pCalls
  /\ UNCHANGED <<committed, session, leaked, cancelled, handled, hOk, cCalls,
                 opened, openFails, closeCalls, aCloseCalls,
                 cancelAt, rt>>

\* variant of CommitOk: the cursor committed is the end of the fetched list
CommitOk_wholeList ==
  /\ pc = "commit"
  /\ committed' = [committed EXCEPT
                     ![Msg.tp] = records[ti].first + records[ti].n]
  /\ commitLog' = IF clean
                    THEN [commitLog EXCEPT
                            ![Msg.tp] = Append(@, records[ti].first + records[ti].n)]
                    ELSE commitLog
  /\ Advance
  /\ tries' = Tries
  /\ hOk' = FALSE
  /\ hCalls' = 0
  /\ cCalls' = 0
  /\ ev' = Ev("commit", TRUE, Tries - tries + 1, Msg, hCalls, 0)
  /\ UNCHANGED <<outer_tries, records, pending, result, position, session,
                 leaked, cancelled, handled, opened, openFails, closeCalls,
                 aCloseCalls, runErr, attemptErr, owed, clean,
                 cancelAt, pCalls, rt>>

\* variant of CommitOk: the cursor committed is msg.offset
CommitOk_offByOne ==
  /\ pc = "commit"
  /\ committed' = [committed EXCEPT ![Msg.tp] = Msg.off]
  /\ commitLog' = IF clean
                    THEN [commitLog EXCEPT ![Msg.tp] = Append(@, Msg.off)]
                    ELSE commitLog
  /\ Advance
  /\ tries' = Tries
  /\ hOk' = FALSE
  /\ hCalls' = 0
  /\ cCalls' = 0
  /\ ev' = Ev("commit", TRUE, Tries - tries + 1, Msg, hCalls, 0)
  /\ UNCHANGED <<outer_tries, records, pending, result, position, session,
                 leaked, cancelled, handled, opened, openFails, closeCalls,
                 aCloseCalls, runErr, attemptErr, owed, clean,
                 cancelAt, pCalls, rt>>

\* await _retry(tries=3, delay=5)(consumer.commit)({tp: msg.offset + 1}) returns
\* variant of CommitOk: a committed message gives the outer wrapper its
\* tries back
CommitOk_replenish ==
  /\ pc = "commit"
  /\ committed' = [committed EXCEPT ![Msg.tp] = Msg.off + 1]
  /\ commitLog' = IF clean
                    THEN [commitLog EXCEPT ![Msg.tp] = Append(@, Msg.off + 1)]
                    ELSE commitLog
  /\ Advance
  /\ tries' = Tries
  /\ hOk' = FALSE
  /\ hCalls' = 0
  /\ cCalls' = 0
  /\ outer_tries' = OuterTries
  /\ ev' = Ev("commit", TRUE, Tries - tries + 1, Msg, hCalls, 0)
  /\ UNCHANGED <<records, pending, result, position, session,
                 leaked, cancelled, handled, opened, openFails, closeCalls, aCloseCalls,
                 runErr, attemptErr, owed, clean,
                 cancelAt, pCalls, rt>>

CommitOk ==
  /\ pc = "commit"
  /\ committed' = [committed EXCEPT ![Msg.tp] = Msg.off + 1]
  /\ commitLog' = IF clean
                    THEN [commitLog EXCEPT ![Msg.tp] = Append(@, Msg.off + 1)]
                    ELSE commitLog
  /\ Advance
  /\ tries' = Tries
  /\ hOk' = FALSE
  /\ hCalls' = 0
  /\ cCalls' = 0
  /\ ev' = Ev("commit", TRUE, Tries - tries + 1, Msg, hCalls, 0)
  /\ UNCHANGED <<outer_tries, records, pending, result, position, session,
                 leaked, cancelled, handled, opened, openFails, closeCalls, aCloseCalls,
                 runErr, attemptErr, owed, clean,
                 cancelAt, pCalls, rt>>

\* variant of CommitFail: after the last try the error is swallowed and the
\* loop goes on to the next message
CommitFail_swallow ==
  /\ pc = "commit"
  /\ IF tries = 1
       THEN /\ tries' = Tries
            /\ Advance
            /\ owed' = owed \cup {Msg}
            /\ hOk' = FALSE
            /\ hCalls' = 0
            /\ cCalls' = 0
       ELSE /\ tries' = tries - 1
            /\ pc' = "commit_delay"
            /\ cCalls' = cCalls + 1
            /\ UNCHANGED <<ti, mi, owed, hOk, hCalls>>
  /\ commitLog' = NoLog
  /\ clean' = FALSE
  /\ ev' = Ev("commit", FALSE, Tries - tries + 1, Msg, hCalls, 0)
  /\ UNCHANGED <<records, pending, runErr, outer_tries, result, attemptErr,
                 position, committed, session, leaked, cancelled, handled,
                 opened, openFails, closeCalls, aCloseCalls,
                 cancelAt, pCalls, rt>>

\* consumer.commit raises: retried, after the last try the error leaves _consume
CommitFail ==
  /\ pc = "commit"
  /\ IF tries = 1
       THEN /\ Raise("CommitError")
            /\ owed' = owed \cup {Msg}
       ELSE /\ tries' = tries - 1
            /\ pc' = "commit_delay"
            /\ commitLog' = NoLog
            /\ clean' = FALSE
            /\ UNCHANGED <<records, ti, mi, pending, runErr, outer_tries,
                           result, attemptErr, owed, position>>
  /\ cCalls' = cCalls + 1
  /\ ev' = Ev("commit", FALSE, Tries - tries + 1, Msg, hCalls, 0)
  /\ UNCHANGED <<committed, session, leaked, cancelled, handled, hOk, hCalls,
                 opened, openFails, closeCalls, aCloseCalls,
                 cancelAt, pCalls, rt>>

\* ---- Closing: finally: await _retry(tries=3, delay=5)(consumer.stop)() -------
\* consumer.stop() returns: the exception that entered the finally block
\* continues to propagate
CloseOk ==
  /\ pc = "close"
  /\ session' = "closed"
  /\ Leave(pending)
  /\ pending' = "none"
  /\ closeCalls' = Count(closeCalls)
  /\ aCloseCalls' = aCloseCalls + 1
  /\ ev' = Ev("close", TRUE, Tries - tries + 1, NoMsg, 0, 0)
  /\ UNCHANGED <<tries, records, ti, mi, committed, position, leaked,
                 cancelled, handled, hOk, hCalls, cCalls, opened, openFails,
                 runErr, owed, commitLog, clean,
                 cancelAt, pCalls, rt>>

\* consumer.stop() raises: retried, and after the last try its error leaves the
\* finally block in place of the exception that entered it
CloseFail ==
  /\ pc = "close"
  /\ tries' = tries - 1
  /\ IF tries' = 0
       THEN /\ Leave("DisconnectError")
            /\ pending' = "none"
       ELSE /\ pc' = "close_delay"
            /\ UNCHANGED <<outer_tries, result, attemptErr, pending>>
  /\ closeCalls' = Count(closeCalls)
  /\ aCloseCalls' = aCloseCalls + 1
  /\ ev' = Ev("close", FALSE, Tries - tries + 1, NoMsg, 0, 0)
  /\ UNCHANGED <<records, ti, mi, committed, position, session, leaked,
                 cancelled, handled, hOk, hCalls, cCalls, opened, openFails,
                 runErr, owed, commitLog, clean,
                 cancelAt, pCalls, rt>>

\* ---- the decorator of start: sleep 15, then call start again -----------------
\* the body of start runs from its first line: a new AIOKafkaConsumer is built
OuterSleep ==
  /\ pc = "outer_delay"
  /\ pc' = "open"
  /\ tries' = Tries
  /\ leaked' = IF session = "open" THEN leaked + 1 ELSE leaked
  /\ session' = "new"
  /\ runErr' = "none"
  /\ attemptErr' = "none"
  /\ aCloseCalls' = 0
  /\ hOk' = FALSE
  /\ hCalls' = 0
  /\ cCalls' = 0
  /\ ev' = Ev("sleep", TRUE, 0, NoMsg, 0, OuterDelay)
  /\ cancelAt' = "none"
  /\ UNCHANGED <<outer_tries, records, ti, mi, pending, result, committed,
                 position, cancelled, handled, opened, openFails, closeCalls,
                 owed, commitLog, clean,
                 pCalls, rt>>

\* ---- external cancellation of the task running start -------------------------
\* CancelledError is raised at the await the task is suspended in; neither the
\* retry wrappers nor `except Exception` catch it

\* while Opening: line 93 is outside the try statement
CancelOpening ==
  /\ ~cancelled
  /\ pc \in Opening
  /\ cancelled' = TRUE
  /\ Leave(Cancelled)
  /\ ev' = Ev("cancel", FALSE, 0, NoMsg, 0, 0)
  /\ cancelAt' = pc
  /\ UNCHANGED <<tries, records, ti, mi, pending, committed, position, session,
                 leaked, handled, hOk, hCalls, cCalls, opened, openFails,
                 closeCalls, aCloseCalls, runErr, owed, commitLog, clean,
                 pCalls, rt>>

\* while Running: the finally block runs; a commit request in flight may or
\* may not have reached the broker
\* the try statement of start without its finally clause: the cancellation
\* leaves start and stop() is not called
CancelRunning_noFinally ==
  /\ ~cancelled
  /\ pc \in Running
  /\ cancelled' = TRUE
  /\ runErr' = Cancelled
  /\ Leave(Cancelled)
  /\ tries' = Tries
  /\ pending' = "none"
  /\ records' = <<>>
  /\ ti' = 1
  /\ mi' = 0
  /\ position' = StartCursor
  /\ commitLog' = NoLog
  /\ clean' = FALSE
  /\ hCalls' = IF pc = "handler" THEN hCalls + 1 ELSE hCalls
  /\ cCalls' = IF pc = "commit" THEN cCalls + 1 ELSE cCalls
  /\ owed' = IF pc = "handler" THEN owed \ {Msg} ELSE owed
  /\ committed' = committed
  /\ ev' = Ev("cancel", FALSE, 0, Msg, hCalls, 0)
  /\ cancelAt' = pc
  /\ pCalls' = pCalls
  /\ UNCHANGED <<session, leaked, handled, hOk, opened, openFails, closeCalls,
                 aCloseCalls, rt>>

CancelRunning ==
  /\ ~cancelled
  /\ pc \in Running
  /\ cancelled' = TRUE
  /\ Raise(Cancelled)
  /\ hCalls' = IF pc = "handler" THEN hCalls + 1 ELSE hCalls
  /\ cCalls' = IF pc = "commit" THEN cCalls + 1 ELSE cCalls
  /\ owed' = IF pc = "handler" THEN owed \ {Msg} ELSE owed
  /\ \/ committed' = committed
     \/ /\ pc = "commit"
        /\ committed' = [committed EXCEPT ![Msg.tp] = Msg.off + 1]
  /\ ev' = Ev("cancel", FALSE, 0, Msg, hCalls, 0)
  /\ cancelAt' = pc
  /\ pCalls' = IF pc = "handler" /\ Msg = Poison /\ Poison \notin handled
                 THEN pCalls + 1 ELSE pCalls
  /\ UNCHANGED <<session, leaked, handled, hOk, opened, openFails, closeCalls, aCloseCalls,
                 rt>>

\* while Closing: the CancelledError leaves the finally block
CancelClosing ==
  /\ ~cancelled
  /\ pc \in Closing
  /\ cancelled' = TRUE
  /\ Leave(Cancelled)
  /\ pending' = "none"
  /\ closeCalls' = IF pc = "close" THEN Count(closeCalls) ELSE closeCalls
  /\ aCloseCalls' = IF pc = "close" THEN aCloseCalls + 1 ELSE aCloseCalls
  /\ ev' = Ev("cancel", FALSE, 0, NoMsg, 0, 0)
  /\ cancelAt' = pc
  /\ UNCHANGED <<tries, records, ti, mi, committed, position, session, leaked,
                 handled, hOk, hCalls, cCalls, opened, openFails, runErr, owed,
                 commitLog, clean,
                 pCalls, rt>>

\* during the sleep of the decorator of start
CancelOuterSleep ==
  /\ ~cancelled
  /\ pc = "outer_delay"
  /\ cancelled' = TRUE
  /\ Leave(Cancelled)
  /\ ev' = Ev("cancel", FALSE, 0, NoMsg, 0, 0)
  /\ cancelAt' = pc
  /\ UNCHANGED <<tries, records, ti, mi, pending, committed, position, session,
                 leaked, handled, hOk, hCalls, cCalls, opened, openFails,
                 closeCalls, aCloseCalls, runErr, owed, commitLog, clean,
                 pCalls, rt>>

Next ==
  \/ OpenOk
  \/ OpenFail
  \/ RetrySleep
  \/ FetchOk
  \/ FetchFail
  \/ IdleSleep
  \/ HandlerOk
  \/ HandlerFail
  \/ CommitOk
  \/ CommitFail
  \/ CloseOk
  \/ CloseFail
  \/ OuterSleep
  \/ CancelOpening
  \/ CancelRunning
  \/ CancelClosing
  \/ CancelOuterSleep

Spec == Init /\ [][Next]_vars

\* calls and sleeps _consume awaits for items i.. of the mapping recs when all
\* of them return: one sleep for an empty list, handler and commit per message
RECURSIVE Rest(_, _)
Rest(recs, i) ==
  IF i > Len(recs) THEN 0
  ELSE (IF recs[i].n = 0 THEN 1 ELSE 2 * recs[i].n) + Rest(recs, i + 1)

\* calls and sleeps between the current one (included) and the next getmany
\* call when all of them return
Left ==
  IF pc = "idle" THEN Rest(records, ti)
  ELSE IF pc = "handler" THEN Rest(records, ti) - 2 * mi
  ELSE IF pc = "commit" THEN Rest(records, ti) - 2 * mi - 1
  ELSE 0

\* ---- the retry wrapper on its own ------------------------------------------
\* _retry(tries=T, delay=D)(op)(): retry_async.retry with is_async=True keeps
\* a countdown `left` that starts at T; each pass of its loop awaits op once.
\* rt.calls, rt.sleeps, rt.slept, rt.last observe the calls, the sleeps, the
\* seconds slept and the last error of op; rt.out is what the wrapper gave
\* its caller.
RetryDelays == {InnerDelay, OuterDelay}

RetryInit ==
  /\ InitConsumer
  /\ \E T \in 1..MaxTries, D \in RetryDelays :
        rt = [phase |-> "call", tries |-> T, delay |-> D, left |-> T,
              calls |-> 0, sleeps |-> 0, slept |-> 0, last |-> "none",
              out |-> "none"]

\* op returns: the wrapper returns its value
RtReturn ==
  /\ rt.phase = "call"
  /\ rt' = [rt EXCEPT !.phase = "done", !.calls = @ + 1, !.out = "returned"]
  /\ UNCHANGED <<prog, ghost>>

\* variant of RtRaise: the wrapper sleeps after every failed call, the last
\* one included, before it raises
RtRaise_sleepAfterLast ==
  /\ rt.phase = "call"
  /\ \E e \in Errors :
        rt' = IF rt.left = 1
                THEN [rt EXCEPT !.phase = "done", !.left = 0, !.calls = @ + 1,
                                !.sleeps = @ + 1, !.slept = @ + rt.delay,
                                !.last = e, !.out = e]
                ELSE [rt EXCEPT !.phase = "sleep", !.left = @ - 1,
                                !.calls = @ + 1, !.last = e]
  /\ UNCHANGED <<prog, ghost>>

\* op raises e: one try less; with none left e is re-raised, else the wrapper
\* goes to sleep
RtRaise ==
  /\ rt.phase = "call"
  /\ \E e \in Errors :
        rt' = IF rt.left = 1
                THEN [rt EXCEPT !.phase = "done", !.left = 0, !.calls = @ + 1,
                                !.last = e, !.out = e]
                ELSE [rt EXCEPT !.phase = "sleep", !.left = @ - 1,
                                !.calls = @ + 1, !.last = e]
  /\ UNCHANGED <<prog, ghost>>

\* await asyncio.sleep(delay), then the next pass of the loop
RtSleep ==
  /\ rt.phase = "sleep"
  /\ rt' = [rt EXCEPT !.phase = "call", !.sleeps = @ + 1, !.slept = @ + rt.delay]
  /\ UNCHANGED <<prog, ghost>>

RetryNext ==
  \/ RtReturn
  \/ RtRaise
  \/ RtSleep

SpecRetry == RetryInit /\ [][RetryNext]_vars

\* ---- properties -------------------------------------------------------------
InMessage == pc \in {"handler", "handler_delay", "commit", "commit_delay"}

\* C1: a commit call for {tp: o+1} (first or retried) is issued only when the
\* handler has returned for (tp, o) in this delivery of the same outer attempt,
\* whatever tp of the batch the message is on.
C1_CommitOnlyAfterHandler ==
  /\ pc \in {"commit", "commit_delay"} =>
        /\ Msg # NoMsg
        /\ hOk
        /\ hCalls >= 1
        /\ Msg \in handled
  /\ ev.op = "commit" =>
        /\ [tp |-> ev.tp, off |-> ev.off] \in handled
        /\ ev.h >= 1

\* a commit is about to be issued for a message of the second tp of a batch
C1_Witness ==
  /\ pc = "commit"
  /\ Len(records) = 2
  /\ ti = 2
  /\ cCalls = 0

\* C2: every offset between the cursor start found and the committed cursor has
\* been handled successfully at least once.
C2_NoSkip ==
  \A t \in TP : \A o \in StartCursor[t] .. committed[t] - 1 :
     [tp |-> t, off |-> o] \in handled

\* the whole log of a tp is committed after handler failures, commit failures
\* and an outer restart
C2_Witness ==
  /\ \E t \in TP : committed[t] = LogEnd
  /\ outer_tries < OuterTries
  /\ opened
  /\ pc = "fetch"

\* C3: while every call of the batch succeeds on its first try, the commit
\* calls of each tp are exactly first+1, first+2, ... in that order, one per
\* message committed so far, each issued before the next handler invocation.
C3_CommitsInOrder ==
  clean =>
    /\ \A i \in DOMAIN records :
          LET r == records[i]
              k == IF i < ti THEN r.n ELSE IF i = ti THEN mi ELSE 0
          IN  commitLog[r.tp] = [j \in 1..k |-> r.first + j]
    /\ \A t \in TP :
          (\A i \in DOMAIN records : records[i].tp # t) => commitLog[t] = <<>>

\* a list of two messages has been handled and committed on first tries
C3_Witness ==
  /\ clean
  /\ \E i \in DOMAIN records :
        /\ i < ti
        /\ records[i].n = 2
        /\ Len(commitLog[records[i].tp]) = 2

\* C4: a handler failing on tries 1 and 2 and returning on try 3 is absorbed:
\* three invocations, then one commit call, no error leaves _consume, no
\* close() is called and the loop goes on.
C4_RetryAbsorbed ==
  /\ (ev.op = "handler" /\ ~ev.ok /\ ev.n < Tries) =>
        /\ pc = "handler_delay"
        /\ runErr = "none"
        /\ result = "none"
  /\ (ev.op = "handler" /\ ev.ok /\ ev.n = Tries) =>
        /\ pc = "commit"
        /\ hCalls = Tries
        /\ ev.h = Tries
        /\ cCalls = 0
        /\ runErr = "none"
  /\ (ev.op = "commit" /\ ev.ok /\ ev.h = Tries /\ ev.n = 1) =>
        /\ pc \in {"handler", "idle", "fetch"}
        /\ committed[ev.tp] = ev.off + 1
        /\ runErr = "none"
        /\ pending = "none"
        /\ result = "none"
        /\ aCloseCalls = 0
        /\ session = "open"

\* the commit that follows a handler that returned on its third try returned
C4_Witness ==
  /\ ev.op = "commit"
  /\ ev.ok
  /\ ev.h = Tries
  /\ ev.n = 1
  /\ pc = "handler"

\* C5: once the handler has failed on all its tries for a message, no commit
\* call is issued for it, no other message is handled or committed, no getmany
\* is issued in that outer attempt, and the Closing step runs.
C5_HandlerExhaustionIsTerminal ==
  /\ (ev.op = "handler" /\ ~ev.ok /\ ev.n = Tries) =>
        /\ pc = "close"
        /\ tries = Tries
        /\ pending = "HandlerError"
        /\ runErr = "HandlerError"
        /\ records = <<>>
        /\ committed[ev.tp] <= ev.off
  /\ runErr = "HandlerError" =>
        /\ pc \in Closing \cup {"outer_delay", "done"}
        /\ hCalls = Tries
        /\ cCalls = 0
        /\ ~hOk
        /\ pc \in {"outer_delay", "done"} => aCloseCalls >= 1

\* the handler failed three times and close() has been called
C5_Witness ==
  /\ runErr = "HandlerError"
  /\ pc = "outer_delay"
  /\ aCloseCalls = 1
  /\ session = "closed"

\* C6: when _consume raised E and close() then failed on all its tries, the
\* error that leaves the outer attempt, and start in the end, is E.
C6_CloseFailureDoesNotMask ==
  (ev.op = "close" /\ ~ev.ok /\ ev.n = Tries /\ runErr \in Errors) =>
     /\ attemptErr = runErr
     /\ result # "none" => result = runErr

\* C7 as stated: a start invocation that reached Running has called close()
\* exactly once when it ends.
C7_CloseExactlyOncePerStart ==
  (pc = "done" /\ opened) => closeCalls = 1

\* C7 amended: the Closing step runs once per outer attempt that reached
\* Running, after Running has ended, with one to Tries close() calls that stop
\* at the first one that returns; attempts that did not open call no close().
C7_ClosingOncePerAttempt ==
  /\ pc \in Opening => (aCloseCalls = 0 /\ session = "new")
  /\ pc \in Running =>
        (aCloseCalls = 0 /\ session = "open" /\ runErr = "none")
  /\ pc \in Closing =>
        (aCloseCalls = Tries - tries /\ session = "open" /\ runErr # "none")
  /\ (pc \in {"outer_delay", "done"} /\ session # "new") =>
        (aCloseCalls \in 1..Tries /\ runErr # "none")
  /\ (pc \in {"outer_delay", "done"} /\ session = "new") => aCloseCalls = 0
  /\ (ev.op = "close" /\ ev.ok) =>
        (pc \in {"outer_delay", "done"} /\ session = "closed"
           /\ aCloseCalls = ev.n)

\* Running was cancelled and close() returned on its second try
C7_Witness ==
  /\ pc = "done"
  /\ runErr = Cancelled
  /\ result = Cancelled
  /\ aCloseCalls = 2
  /\ session = "closed"

\* C8: while no open() call has returned, no getmany, handler, commit or close
\* call is issued, every outer attempt makes exactly Tries open() calls with a
\* sleep of InnerDelay between them, outer attempts are OuterDelay apart, and
\* after OuterTries attempts start raises ConnectionError.
C8_OpenFailureEscalates ==
  ~opened =>
    /\ pc \in Opening \cup {"outer_delay", "done"}
    /\ session = "new"
    /\ handled = {}
    /\ committed = StartCursor
    /\ closeCalls = 0
    /\ ~cancelled =>
          /\ openFails = (OuterTries - outer_tries) * Tries
                           + (IF pc \in Opening THEN Tries - tries ELSE 0)
          /\ pc = "done" =>
                (result = "ConnectionError" /\ outer_tries = 0
                   /\ openFails = OuterTries * Tries)
          /\ pc = "outer_delay" => (ev.op = "open" /\ ~ev.ok /\ ev.n = Tries)
          /\ (pc = "open" /\ tries < Tries) =>
                (ev.op = "sleep" /\ ev.d = InnerDelay)
          /\ (pc = "open" /\ tries = Tries /\ outer_tries < OuterTries) =>
                (ev.op = "sleep" /\ ev.d = OuterDelay)

\* open() has failed nine times and start has raised ConnectionError
C8_Witness ==
  /\ ~opened
  /\ pc = "done"
  /\ result = "ConnectionError"
  /\ openFails = 9

C10_UncommittedIsRedelivered ==
  /\ (ev.op = "commit" /\ ~ev.ok /\ ev.n = Tries) =>
        /\ pc = "close"
        /\ pending = "CommitError"
        /\ runErr = "CommitError"
        /\ [tp |-> ev.tp, off |-> ev.off] \in owed
  /\ \A m \in owed :
        /\ m \in handled
        /\ committed[m.tp] <= m.off
        /\ (InMessage /\ Msg.tp = m.tp) => (Msg = m /\ pc = "handler")

\* the next outer attempt is about to invoke the handler on the message again
C10_Witness ==
  /\ pc = "handler"
  /\ Msg \in owed
  /\ outer_tries < OuterTries
  /\ Msg.off = 1

\* C11: a cancellation delivered in any call or sleep of Running (getmany, the
\* idle sleep, the handler, the commit, a retry sleep of either) starts the
\* Closing step: the next call is stop() under a fresh budget of Tries tries,
\* and the outer attempt does not end before stop() has been called.
C11_CancelRunsClosing ==
  /\ (ev.op = "cancel" /\ cancelAt \in Running) =>
        /\ pc = "close"
        /\ tries = Tries
        /\ pending = Cancelled
        /\ session = "open"
        /\ result = "none"
  /\ cancelAt \in Running =>
        /\ runErr = Cancelled
        /\ pc \in Closing \cup {"outer_delay", "done"}
        /\ pc \in Closing => aCloseCalls = Tries - tries
        /\ pc \in {"outer_delay", "done"} => aCloseCalls \in 1..Tries
        /\ (pc \in {"outer_delay", "done"} /\ aCloseCalls < Tries) =>
              session = "closed"

\* the cancellation came in the sleep between two handler tries; stop() failed
\* once, then returned, and the cancellation left start
C11_Witness ==
  /\ cancelAt = "handler_delay"
  /\ pc = "done"
  /\ result = Cancelled
  /\ aCloseCalls = 2
  /\ session = "closed"

\* C12: when getmany returned no message (a mapping without any tp, or tps
\* mapped to empty lists only), the loop calls no handler and no commit and
\* sleeps consumer_timeout_ms / 1000 seconds before it calls getmany again;
\* the sleep ends neither Running nor costs a try.
C12_EmptyPollSleeps ==
  (pc = "fetch" /\ ev.op \in {"fetch", "idle"} /\ ev.ok /\ Total(records) = 0) =>
     /\ ev.op = "idle"
     /\ ev.d = consumer_timeout_ms
     /\ hCalls = 0
     /\ cCalls = 0
     /\ tries = Tries
     /\ runErr = "none"

\* C13: the outer wrapper of start makes at most OuterTries attempts: each
\* attempt that ends with an error takes one try, a try is never given back
\* (also not by messages processed in between), and when none is left start
\* raises that error; a message whose handler always fails is handed to the
\* handler at most Tries times per attempt, OuterTries * Tries times in all.
C13_InvBounded ==
  /\ outer_tries \in 0..OuterTries
  /\ pc # "done" => (outer_tries >= 1 /\ result = "none")
  /\ (pc = "done" /\ result # Cancelled) =>
        (outer_tries = 0 /\ result \in Errors /\ result = attemptErr)
  /\ pc = "outer_delay" =>
        (attemptErr \in Errors /\ outer_tries < OuterTries)
  /\ pCalls <= Tries * Min(OuterTries, OuterTries - outer_tries + 1)

C13_BoundedOuterAttempts ==
  /\ []C13_InvBounded
  /\ [][outer_tries' <= outer_tries]_vars

\* the handler failed on Poison in all Tries tries of all OuterTries attempts
\* while messages of the other tp were processed in between, and start raised
C13_Witness ==
  /\ pc = "done"
  /\ result = "HandlerError"
  /\ outer_tries = 0
  /\ pCalls = OuterTries * Tries
  /\ committed["p1"] >= 1

\* C14: start has no normal return: when it has ended, an error or the
\* cancellation was raised to the caller, and Running is left by an exception
\* only; while the calls return, getmany is called again: each call or sleep
\* of the loop that returns keeps start in the loop and brings it one step
\* closer to the next getmany call, and the loop is at getmany when no step
\* is left. A step in which such a call returns is one whose event ev' is a
\* returned open, getmany, idle sleep, handler or commit.
C14_InvNoReturn ==
  /\ pc = "done" => result \in Errors \cup {Cancelled}
  /\ pc \in Closing => pending \in Errors \cup {Cancelled}
  /\ runErr \in Errors \cup {Cancelled, "none"}

C14_NoNormalReturn ==
  /\ []C14_InvNoReturn
  /\ [](pc \in {"idle", "handler", "commit"} => Left >= 1)
  /\ [][(ev'.ok /\ ev'.op \in {"open", "fetch", "idle", "handler", "commit"}) =>
          /\ pc' \in {"fetch", "idle", "handler", "commit"}
          /\ pc \in {"open", "fetch"} => Left' = Rest(records', 1)
          /\ pc \in {"idle", "handler", "commit"} => Left' = Left - 1
          /\ pc' = "fetch" <=> Left' = 0]_vars

\* the whole log was processed without a failure and getmany is called again
C14_Witness ==
  /\ pc = "fetch"
  /\ ev.op = "commit"
  /\ ev.ok
  /\ committed = [t \in TP |-> LogEnd]
  /\ outer_tries = OuterTries
  /\ closeCalls = 0
  /\ openFails = 0
  /\ ~cancelled

\* C15: for every tries >= 1, every delay and every pattern of failures of
\* op, the retry wrapper calls op at most tries times, returns at the first
\* call that returns, sleeps delay seconds after a failed call only when
\* another call follows, and when all calls failed raises the error of the
\* last call.
C15_RetryContract ==
  /\ rt.calls <= rt.tries
  /\ rt.calls = rt.tries - rt.left + (IF rt.out = "returned" THEN 1 ELSE 0)
  /\ rt.slept = rt.sleeps * rt.delay
  /\ rt.phase = "call" => (rt.left >= 1 /\ rt.sleeps = rt.calls /\ rt.out = "none")
  /\ rt.phase = "sleep" =>
        (rt.left >= 1 /\ rt.sleeps = rt.calls - 1 /\ rt.out = "none")
  /\ rt.phase = "done" =>
        /\ rt.out # "none"
        /\ rt.sleeps = rt.calls - 1
        /\ rt.out = "returned" => rt.last \in Errors \cup {"none"}
        /\ rt.out # "returned" =>
              (rt.calls = rt.tries /\ rt.left = 0 /\ rt.out = rt.last
                 /\ rt.out \in Errors)

\* op failed on all of 3 tries, the last time with DisconnectError; the
\* wrapper slept twice and raised that error
C15_Witness ==
  /\ rt.phase = "done"
  /\ rt.tries = 3
  /\ rt.calls = 3
  /\ rt.sleeps = 2
  /\ rt.slept = 2 * rt.delay
  /\ rt.out = "DisconnectError"

C17_CancelIsFinal ==
  cancelled =>
    /\ pc \in Closing \cup {"done"}
    /\ pc = "done" => result = Cancelled

\* C18: at most one session of a start invocation is open at a time: when an
\* outer attempt calls open() on its new consumer, no consumer of an earlier
\* attempt is still open, whatever calls failed before.
C18_OneSessionOpen ==
  /\ pc = "open" => leaked = 0
  /\ leaked + (IF session = "open" THEN 1 ELSE 0) <= 1

\* C19: stop() is called in an outer attempt exactly when open() returned in
\* it: the Closing step works on an opened consumer, makes at most Tries
\* stop() calls and none after one that returned; an attempt whose open()
\* failed on all Tries tries, or that was cancelled in open() or in the sleep
\* between two open() tries, ends without a stop() call.
C19_OpenCloseBalanced ==
  /\ pc \in Closing => (session = "open" /\ tries \in 1..Tries)
  /\ aCloseCalls <= Tries
  /\ aCloseCalls >= 1 => session \in {"open", "closed"}
  /\ (pc \in {"outer_delay", "done"} /\ session \in {"open", "closed"}) =>
        aCloseCalls >= 1
  /\ (ev.op = "open" /\ ~ev.ok /\ ev.n = Tries) =>
        (pc \in {"outer_delay", "done"} /\ session = "new" /\ aCloseCalls = 0)
  /\ cancelAt \in Opening =>
        (pc = "done" /\ session = "new" /\ aCloseCalls = 0)
  /\ (ev.op = "close" /\ ev.ok) => pc \notin Closing
  /\ session = "closed" => pc \in {"outer_delay", "done"}

\* the first outer attempt opened and closed its consumer; the second one was
\* cancelled in the sleep between two open() tries and called no stop()
C19_Witness ==
  /\ cancelAt = "open_delay"
  /\ pc = "done"
  /\ opened
  /\ closeCalls >= 1
  /\ aCloseCalls = 0
  /\ session = "new"

\* C20: the committed cursor of a tp never moves back: every commit call,
\* first or retried, before or after a restart by the outer wrapper, carries
\* an offset above the committed cursor of its tp, and no step lowers a
\* committed cursor.
C20_InvCommitAbove ==
  /\ InMessage => Msg.off >= committed[Msg.tp]
  /\ pc \in {"commit", "commit_delay"} => Msg.off + 1 > committed[Msg.tp]
  /\ (ev.op = "commit" /\ ev.ok) => committed[ev.tp] = ev.off + 1

C20_CursorMonotonic ==
  /\ []C20_InvCommitAbove
  /\ [][\A t \in TP : committed'[t] >= committed[t]]_vars

\* an earlier outer attempt committed the first message of a tp and ended
\* with an error; the restarted consumer resumed behind it and the commit of
\* the second message is about to be called
C20_Witness ==
  /\ pc = "commit"
  /\ outer_tries < OuterTries
  /\ Msg.off >= 1
  /\ committed[Msg.tp] = Msg.off
  /\ records[ti].first = Msg.off

TypeOK ==
  /\ pc \in Opening \cup Running \cup Closing \cup {"outer_delay", "done"}
  /\ outer_tries \in 0..OuterTries
  /\ tries \in 0..Tries
  /\ mi \in 0..consumer_batch_size
  /\ pending \in Errors \cup {Cancelled, "none"}
  /\ result \in Errors \cup {Cancelled, "none"}
  /\ committed \in [TP -> 0..LogEnd]
  /\ position \in [TP -> 0..LogEnd]
  /\ session \in {"new", "open", "closed"}
  /\ cancelled \in BOOLEAN
  /\ cancelAt \in Opening \cup Running \cup Closing \cup {"outer_delay", "none"}
  /\ pCalls \in 0..(OuterTries * Tries)
  /\ rt.phase \in {"idle", "call", "sleep", "done"}

====
